---- MODULE Spec2Model ----
(***************************************************************************)
(* Model of the Ahjoor ROSCA contract (contracts/ahjoor-rosca/src/lib.rs). *)
(*                                                                         *)
(* The contract keeps one record in instance storage (DataKey) and has     *)
(* four entry points: init, contribute, close_round and get_state.  Every  *)
(* invocation is one transaction of the host: a panic rolls back all of    *)
(* its storage writes, token transfers and events, so each entry point is  *)
(* one atomic action whose failure leaves the ledger as it was.            *)
(*                                                                         *)
(* The host collaborators are modelled by what the contract uses of them:  *)
(*   - the ledger clock    : the variable now, advanced by Tick;           *)
(*   - authentication      : every call is made by one caller, and         *)
(*                           p.require_auth() passes iff caller = p;       *)
(*   - the token contract  : the variable balance; transfer fails on a     *)
(*                           negative amount or an insufficient balance;   *)
(*   - events              : the variable events, the published sequence.  *)
(*                                                                         *)
(* Timestamps and durations are u64, the round counter is u32 and amounts  *)
(* are i128; every value the bounds below allow lies far below these       *)
(* widths, so no addition or multiplication of the model overflows.        *)
(***************************************************************************)
EXTENDS Integers, Sequences, FiniteSets, TLC

\* ------------------------------------------------------------------ bounds
MaxMembers  == 2   \* longest members vector passed to init
MaxAmount   == 1   \* largest contribution_amount passed to init
MaxDuration == 1   \* largest round_duration passed to init
MaxTime     == 2   \* the ledger timestamp runs over 0..MaxTime
MaxRound    == 2   \* rounds are ended only while CurrentRound < MaxRound
InitBalance == 2   \* tokens minted to every principal before the run

\* ------------------------------------------------------- principals, inputs
MemberPool == {"a", "b"}            \* addresses init may list as members
AdminPool  == {"adm", "a"}          \* addresses init may name as admin
Principal  == MemberPool \cup AdminPool
Contract   == "contract"            \* env.current_contract_address()
NoAddress  == "none"                \* placeholder of an unset Address key

SeqsUpTo(S, n) == UNION {[1..k -> S] : k \in 0..n}

MembersArgs  == SeqsUpTo(MemberPool, MaxMembers)
AmountArgs   == (0 - 1)..MaxAmount
DurationArgs == 0..MaxDuration

\* ------------------------------------------------------------------ state
VARIABLES
    initialized,      \* instance storage has DataKey::Members
    admin,            \* DataKey::Admin
    members,          \* DataKey::Members          (Vec<Address>)
    contributionAmt,  \* DataKey::ContributionAmt  (i128)
    token,            \* DataKey::Token
    currentRound,     \* DataKey::CurrentRound     (u32)
    paidMembers,      \* DataKey::PaidMembers      (Vec<Address>)
    roundDuration,    \* DataKey::RoundDuration    (u64)
    roundDeadline,    \* DataKey::RoundDeadline    (u64)
    defaulters,       \* DataKey::Defaulters       (Vec<Address>)
    now,              \* env.ledger().timestamp()
    balance,          \* the token contract's balances
    events,           \* the events published so far
    last,             \* the last step: entry point, arguments, outcome
    pre               \* the ledger as it was before the last step

scheme == <<initialized, admin, members, contributionAmt, token, currentRound,
            paidMembers, roundDuration, roundDeadline, defaulters>>
vars == <<initialized, admin, members, contributionAmt, token, currentRound,
          paidMembers, roundDuration, roundDeadline, defaulters,
          now, balance, events, last, pre>>

\* what the contract and the token hold: the Scheme record, balances, events
Snapshot ==
    [initialized |-> initialized, admin |-> admin, members |-> members,
     contributionAmt |-> contributionAmt, token |-> token,
     currentRound |-> currentRound, paidMembers |-> paidMembers,
     roundDuration |-> roundDuration, roundDeadline |-> roundDeadline,
     defaulters |-> defaulters, balance |-> balance, events |-> events]

\* ------------------------------------------------------------ outcomes
Ok                   == "ok"
Unauthorized         == "Unauthorized"
AlreadyInitialized   == "Already initialized"
DeadlineNotSet       == "Deadline not set"
AdminNotSet          == "Admin not set"
DeadlinePassed       == "Contribution failed: Round deadline has passed"
NotAMember           == "Not a member"
AlreadyContributed   == "Already contributed for this round"
DeadlineNotYetPassed == "Cannot close: Deadline has not passed yet"
NegativeAmount       == "token: negative amount"
InsufficientFunds    == "token: balance is not sufficient"

\* ------------------------------------------------------------ helpers
Range(v) == {v[i] : i \in 1..Len(v)}

\* Vec::contains
Contains(v, x) == \E i \in 1..Len(v) : v[i] = x

\* mutant: the authorization is never demanded
RequireAuthSkipped(caller, p) == TRUE

\* Address::require_auth: the caller is proven to act as principal p
RequireAuth(caller, p) == caller = p

\* mutant: the outcome of the transfer is ignored
TransferErrorIgnored(bal, from, amount) == Ok

\* token::Client::transfer: the reason it fails, or Ok
TransferError(bal, from, amount) ==
    IF amount < 0 THEN NegativeAmount
    ELSE IF bal[from] < amount THEN InsufficientFunds
    ELSE Ok

Transfer(bal, from, to, amount) ==
    [bal EXCEPT ![from] = @ - amount, ![to] = @ + amount]

Call(op, caller, who, err, ret) ==
    [op |-> op, caller |-> caller, who |-> who, err |-> err, ret |-> ret]

\* ------------------------------------------------------------ Init
Init ==
    /\ initialized = FALSE
    /\ admin = NoAddress
    /\ members = <<>>
    /\ contributionAmt = 0
    /\ token = NoAddress
    /\ currentRound = 0
    /\ paidMembers = <<>>
    /\ roundDuration = 0
    /\ roundDeadline = 0
    /\ defaulters = <<>>
    /\ now = 0
    /\ balance = [p \in Principal \cup {Contract} |->
                    IF p = Contract THEN 0 ELSE InitBalance]
    /\ events = <<>>
    /\ last = Call("deploy", NoAddress, NoAddress, Ok, <<>>)
    /\ pre = Snapshot

\* env.ledger().set_timestamp: the clock only moves forward
Tick ==
    /\ now < MaxTime
    /\ now' = now + 1
    /\ last' = Call("tick", NoAddress, NoAddress, Ok, <<>>)
    /\ pre' = Snapshot
    /\ UNCHANGED <<scheme, balance, events>>

\* ------------------------------------------------------------ init
\* mutant: the guard looks for a non-empty Members vector, not for the key
HasMembersNonEmpty == initialized /\ members # <<>>

\* env.storage().instance().has(&DataKey::Members)
HasMembers == initialized

InitialRound == 0

\* mutant: the first deadline forgets the time of the call
InitDeadlineNoStart(start_time, round_duration) == round_duration

InitDeadline(start_time, round_duration) == start_time + round_duration

\* the panic of line 33: the check precedes every use of the arguments, so a
\* rejected call does the same for all of them
InitRejected ==
    /\ last' = Call("init", NoAddress, NoAddress, AlreadyInitialized, <<>>)
    /\ pre' = Snapshot
    /\ UNCHANGED <<scheme, now, balance, events>>

InitAccepted(a, m, amt, d) ==
    /\ initialized' = TRUE
    /\ admin' = a
    /\ members' = m
    /\ contributionAmt' = amt
    /\ token' = "token"
    /\ currentRound' = InitialRound
    /\ paidMembers' = <<>>
    /\ roundDuration' = d
    /\ roundDeadline' = InitDeadline(now, d)
    /\ defaulters' = <<>>
    /\ last' = Call("init", NoAddress, NoAddress, Ok, <<>>)
    /\ pre' = Snapshot
    /\ UNCHANGED <<now, balance, events>>

\* init takes no authorization and validates none of its arguments: anyone may
\* call it, with any admin, members, contribution_amount and round_duration
DoInit ==
    IF HasMembers
    THEN InitRejected
    ELSE \E a \in AdminPool, m \in MembersArgs, amt \in AmountArgs,
            d \in DurationArgs : InitAccepted(a, m, amt, d)

\* ------------------------------------------------------------ contribute
\* mutant: the deadline check is missing
ContributionLateUnchecked(timestamp, deadline) == FALSE

\* mutant: the deadline itself is already too late
ContributionLateInclusive(timestamp, deadline) == timestamp >= deadline

ContributionLate(timestamp, deadline) == timestamp > deadline

\* mutant: the membership check is missing
IsMemberUnchecked(mem, contributor) == TRUE

IsMember(mem, contributor) == Contains(mem, contributor)

\* mutant: the already-paid check is missing
HasPaidUnchecked(paid_members, contributor) == FALSE

HasPaid(paid_members, contributor) == Contains(paid_members, contributor)

RoundComplete(paid_members, mem) == Len(paid_members) = Len(mem)

\* mutant: ending a round skips a round number
NextRoundSkips(current_round) == current_round + 2

\* the CurrentRound that complete_round_payout and close_round store
NextRound(current_round) == current_round + 1

\* mutant: the payout resets the defaulters with the rest of the round
DefaultersClearedByPayout(d) == <<>>

\* DataKey::Defaulters after complete_round_payout, which writes CurrentRound,
\* PaidMembers and RoundDeadline and no other key
DefaultersAfterPayout(d) == d

\* mutant: the rotation counts the rounds paid out, not the rounds closed
RecipientIdxPaidRoundsOnly(current_round, n) == (current_round - Len(events)) % n

RecipientIdx(current_round, n) == current_round % n

\* mutant: the pot is one contribution
TotalPotSingle(amount, paid_members) == amount

\* mutant: the pot is all that custody holds after the last contribution
TotalPotWholeCustody(amount, paid_members) == balance[Contract] + amount

TotalPot(amount, paid_members) == amount * Len(paid_members)

PayoutDeadline(timestamp, duration) == timestamp + duration

\* mutant: the contributor is never recorded
MarkPaidDropped(paid_members, contributor) == paid_members

\* paid_members after step 5 of contribute
MarkPaid(paid_members, contributor) == Append(paid_members, contributor)

\* the first panic contribute runs into, in the order of the code, or Ok
ContributeError(caller, contributor) ==
    LET bal1  == Transfer(balance, contributor, Contract, contributionAmt)
        paid1 == MarkPaid(paidMembers, contributor)
    IN  IF ~RequireAuth(caller, contributor) THEN Unauthorized
        ELSE IF ~initialized THEN DeadlineNotSet
        ELSE IF ContributionLate(now, roundDeadline) THEN DeadlinePassed
        ELSE IF ~IsMember(members, contributor) THEN NotAMember
        ELSE IF HasPaid(paidMembers, contributor) THEN AlreadyContributed
        ELSE IF TransferError(balance, contributor, contributionAmt) # Ok
             THEN TransferError(balance, contributor, contributionAmt)
        ELSE IF RoundComplete(paid1, members)
             THEN TransferError(bal1, Contract, TotalPot(contributionAmt, paid1))
        ELSE Ok

Contribute(caller, contributor) ==
    LET err   == ContributeError(caller, contributor)
        bal1  == Transfer(balance, contributor, Contract, contributionAmt)
        paid1 == MarkPaid(paidMembers, contributor)
        payout_recipient == members[RecipientIdx(currentRound, Len(members)) + 1]
        total_pot == TotalPot(contributionAmt, paid1)
    IN  IF err # Ok
        THEN /\ last' = Call("contribute", caller, contributor, err, <<>>)
             /\ pre' = Snapshot
             /\ UNCHANGED <<scheme, now, balance, events>>
        ELSE IF RoundComplete(paid1, members)
        THEN \* complete_round_payout
             /\ currentRound < MaxRound
             /\ balance' = Transfer(bal1, Contract, payout_recipient, total_pot)
             /\ currentRound' = NextRound(currentRound)
             /\ paidMembers' = <<>>
             /\ roundDeadline' = PayoutDeadline(now, roundDuration)
             /\ defaulters' = DefaultersAfterPayout(defaulters)
             /\ last' = Call("contribute", caller, contributor, Ok, <<>>)
             /\ pre' = Snapshot
             /\ UNCHANGED <<initialized, admin, members, contributionAmt, token,
                            roundDuration, now, events>>
        ELSE /\ balance' = bal1
             /\ paidMembers' = paid1
             /\ last' = Call("contribute", caller, contributor, Ok, <<>>)
             /\ pre' = Snapshot
             /\ UNCHANGED <<initialized, admin, members, contributionAmt, token,
                            currentRound, roundDuration, roundDeadline, defaulters,
                            now, events>>

\* a caller who is not the contributor: which one makes no difference to
\* contributor.require_auth()
Impostor(contributor) == CHOOSE p \in Principal : p # contributor

DoContribute ==
    \E contributor \in Principal :
        \E caller \in {contributor, Impostor(contributor)} :
            Contribute(caller, contributor)

\* ------------------------------------------------------------ close_round
\* mutant: the comparison is inverted, an expired round cannot be closed
CloseTooEarlyInverted(timestamp, deadline) == timestamp >= deadline

\* mutant: the round may be closed at the deadline itself
CloseTooEarlyStrict(timestamp, deadline) == timestamp < deadline

CloseTooEarly(timestamp, deadline) == timestamp <= deadline

\* the members not in paid_members, in the order of members
ComputeDefaulters(mem, paid_members) ==
    SelectSeq(mem, LAMBDA m : ~Contains(paid_members, m))

\* mutant: the next deadline is counted from the missed one
CloseDeadlineFromMissed(timestamp, duration) == roundDeadline + duration

CloseDeadline(timestamp, duration) == timestamp + duration

CloseRoundError(caller) ==
    IF ~initialized THEN AdminNotSet
    ELSE IF ~RequireAuth(caller, admin) THEN Unauthorized
    ELSE IF CloseTooEarly(now, roundDeadline) THEN DeadlineNotYetPassed
    ELSE Ok

CloseRound(caller) ==
    LET err == CloseRoundError(caller)
        new_defaulters == ComputeDefaulters(members, paidMembers)
    IN  IF err # Ok
        THEN /\ last' = Call("close_round", caller, NoAddress, err, <<>>)
             /\ pre' = Snapshot
             /\ UNCHANGED <<scheme, now, balance, events>>
        ELSE /\ currentRound < MaxRound
             /\ defaulters' = new_defaulters
             /\ currentRound' = NextRound(currentRound)
             /\ paidMembers' = <<>>
             /\ roundDeadline' = CloseDeadline(now, roundDuration)
             /\ events' = Append(events, [topics |-> <<"closed", currentRound>>,
                                          data   |-> new_defaulters])
             /\ last' = Call("close_round", caller, NoAddress, Ok, <<>>)
             /\ pre' = Snapshot
             /\ UNCHANGED <<initialized, admin, members, contributionAmt, token,
                            roundDuration, now, balance>>

DoCloseRound == \E caller \in Principal : CloseRound(caller)

\* ------------------------------------------------------------ get_state
GetStateResult == <<currentRound, paidMembers, roundDeadline>>

GetState ==
    /\ last' = Call("get_state", NoAddress, NoAddress, Ok, GetStateResult)
    /\ pre' = Snapshot
    /\ UNCHANGED <<scheme, now, balance, events>>

\* ------------------------------------------------------------ specification
Next == Tick \/ DoInit \/ DoContribute \/ DoCloseRound \/ GetState

Spec == Init /\ [][Next]_vars

\* a close_round by the admin that succeeds
AdminCloses ==
    \E caller \in Principal :
        /\ CloseRoundError(caller) = Ok
        /\ CloseRound(caller)

\* the clock keeps running, and the admin closes a round that stays expired
FairSpec == Spec /\ WF_vars(Tick) /\ WF_vars(AdminCloses)

\* ------------------------------------------------------------ properties
\* what the claims speak of: the step just made (last), the ledger before it
\* (pre) and the ledger after it (the current state)
NoDup(v) == \A i, j \in 1..Len(v) : v[i] = v[j] => i = j

Unchanged == Snapshot = pre

\* the scheme was created with the arguments section 4.1 of the design asks for
ValidScheme ==
    /\ initialized
    /\ members # <<>>
    /\ NoDup(members)
    /\ contributionAmt > 0
    /\ roundDuration > 0

RecordUnchanged ==
    /\ currentRound = pre.currentRound
    /\ paidMembers = pre.paidMembers
    /\ roundDeadline = pre.roundDeadline
    /\ defaulters = pre.defaulters

\* contribute(who) called by who itself, on an initialized scheme
AuthorizedContribute ==
    /\ last.op = "contribute"
    /\ last.caller = last.who
    /\ pre.initialized

\* close_round called by the admin, on an initialized scheme
AdminCloseRound ==
    /\ last.op = "close_round"
    /\ pre.initialized
    /\ last.caller = pre.admin

\* the balances after who paid amt into custody
AfterContribution(bal, who, amt) ==
    [bal EXCEPT ![who] = @ - amt, ![Contract] = @ + amt]

\* the balances after custody paid pot to payee
AfterPayout(bal, payee, pot) ==
    [bal EXCEPT ![Contract] = @ - pot, ![payee] = @ + pot]

\* a successful contribute by the last member of the scheme still unpaid
LastUnpaidContributes ==
    /\ AuthorizedContribute
    /\ last.err = Ok
    /\ now <= pre.roundDeadline
    /\ last.who \in Range(members)
    /\ last.who \notin Range(pre.paidMembers)
    /\ Range(pre.paidMembers) \cup {last.who} = Range(members)

RoundCompletedWithPayout ==
    /\ currentRound = pre.currentRound + 1
    /\ paidMembers = <<>>
    /\ roundDeadline = now + roundDuration
    /\ balance = AfterPayout(
                    AfterContribution(pre.balance, last.who, contributionAmt),
                    members[(pre.currentRound % Len(members)) + 1],
                    contributionAmt * Len(members))

\* C1: when the last unpaid member contributes in time, the same operation
\* ends the round: currentRound + 1, paidMembers empty, roundDeadline =
\* now + roundDuration, and members[priorRound mod |members|] receives
\* contributionAmount x |members| from custody; and no state between
\* operations has every member in paidMembers (here already for the schemes
\* with a member, a positive amount and a positive duration).
C1_LastContributionCompletesRound ==
    (initialized /\ members # <<>> /\ contributionAmt > 0 /\ roundDuration > 0) =>
        /\ LastUnpaidContributes => RoundCompletedWithPayout
        /\ Range(paidMembers) # Range(members)

\* C1 restricted to the schemes whose members vector has no duplicate, where
\* it holds: init accepts a vector with duplicates, and in such a scheme
\* paid_members.len() never reaches members.len()
C1_HoldsForDistinctMembers ==
    NoDup(members) => C1_LastContributionCompletesRound

\* C2: a close_round by the admin after the deadline records exactly the
\* members who had not paid as defaulters, adds 1 to currentRound, empties
\* paidMembers and sets roundDeadline to the closing time + roundDuration.
C2_CloseRoundEffect ==
    (AdminCloseRound /\ now > pre.roundDeadline) =>
        /\ last.err = Ok
        /\ Range(defaulters) = Range(members) \ Range(pre.paidMembers)
        /\ currentRound = pre.currentRound + 1
        /\ paidMembers = <<>>
        /\ roundDeadline = now + roundDuration

C2_Witness ==
    /\ AdminCloseRound /\ last.err = Ok
    /\ pre.paidMembers # <<>>
    /\ defaulters # <<>>
    /\ now > pre.roundDeadline
    /\ roundDuration > 0

\* C3: a successful contribute that does not complete the round moves
\* exactly contributionAmount from the contributor to custody, adds the
\* contributor to paidMembers and leaves currentRound, roundDeadline and
\* defaulters as they were.
C3_ContributeFrame ==
    (/\ AuthorizedContribute /\ last.err = Ok
     /\ Len(pre.paidMembers) + 1 # Len(members)) =>
        /\ balance = AfterContribution(pre.balance, last.who, contributionAmt)
        /\ Range(paidMembers) = Range(pre.paidMembers) \cup {last.who}
        /\ Len(paidMembers) = Len(pre.paidMembers) + 1
        /\ currentRound = pre.currentRound
        /\ roundDeadline = pre.roundDeadline
        /\ defaulters = pre.defaulters

C3_Witness ==
    /\ AuthorizedContribute /\ last.err = Ok
    /\ Len(pre.paidMembers) + 1 # Len(members)
    /\ contributionAmt > 0
    /\ defaulters # <<>>
    /\ currentRound > 0

\* C4: on an initialized scheme a contribute after the deadline fails with
\* DeadlinePassed, paid or not, and changes nothing; a contribute at
\* now = roundDeadline is not rejected for the deadline.
C4_LateContributionRejected ==
    AuthorizedContribute =>
        /\ now > pre.roundDeadline => (last.err = DeadlinePassed /\ Unchanged)
        /\ now = pre.roundDeadline => last.err # DeadlinePassed

C4_Witness ==
    /\ AuthorizedContribute
    /\ now > pre.roundDeadline
    /\ last.who \in Range(members)
    /\ last.who \notin Range(pre.paidMembers)
    /\ pre.paidMembers # <<>>
    /\ last.err = DeadlinePassed

C4_WitnessAtDeadline ==
    /\ AuthorizedContribute
    /\ now = pre.roundDeadline
    /\ last.err = Ok

\* C5: a close_round by the admin at now <= roundDeadline fails with
\* DeadlineNotYetPassed and changes nothing: the record is as it was and no
\* event is published.
C5_EarlyCloseRejected ==
    (AdminCloseRound /\ now <= pre.roundDeadline) =>
        /\ last.err = DeadlineNotYetPassed
        /\ RecordUnchanged
        /\ events = pre.events
        /\ Unchanged

C5_Witness ==
    /\ AdminCloseRound
    /\ now = pre.roundDeadline
    /\ paidMembers # <<>>
    /\ last.err = DeadlineNotYetPassed

\* C6 as stated: a contribute by a principal that is not a member fails with
\* NotAMember and moves no funds, whatever the time and the round (here
\* already for the schemes created with valid arguments).
C6_NonMemberAlwaysNotAMember ==
    (AuthorizedContribute /\ ValidScheme /\ last.who \notin Range(members)) =>
        /\ last.err = NotAMember
        /\ balance = pre.balance

\* C6 amended: a contribute by a principal that is not a member never
\* succeeds and moves no funds; it fails with NotAMember when
\* now <= roundDeadline and with DeadlinePassed when now > roundDeadline.
C6_NonMemberRejected ==
    (AuthorizedContribute /\ last.who \notin Range(members)) =>
        /\ last.err = (IF now <= pre.roundDeadline THEN NotAMember
                       ELSE DeadlinePassed)
        /\ Unchanged

C6_Witness ==
    /\ AuthorizedContribute
    /\ last.who \notin Range(members)
    /\ members # <<>>
    /\ now <= pre.roundDeadline
    /\ last.err = NotAMember
    /\ currentRound > 0

\* C7 as stated: a member who has paid in the current round and contributes
\* again fails with AlreadyContributed and nothing is transferred; paidMembers
\* has no duplicate (here already for the schemes created with valid
\* arguments).
C7_SecondContributionAlreadyContributed ==
    /\ (AuthorizedContribute /\ ValidScheme /\ last.who \in Range(pre.paidMembers)) =>
            (last.err = AlreadyContributed /\ balance = pre.balance)
    /\ NoDup(paidMembers)

\* C7 amended: a member who has paid in the current round and contributes
\* again fails and nothing is transferred: with AlreadyContributed while
\* now <= roundDeadline, with DeadlinePassed once now > roundDeadline; so no
\* member is debited twice in a round and paidMembers has no duplicate.
C7_AtMostOneContributionPerRound ==
    /\ (AuthorizedContribute /\ last.who \in Range(pre.paidMembers)) =>
            /\ last.err = (IF now <= pre.roundDeadline THEN AlreadyContributed
                           ELSE DeadlinePassed)
            /\ Unchanged
    /\ NoDup(paidMembers)

C7_Witness ==
    /\ AuthorizedContribute
    /\ last.who \in Range(pre.paidMembers)
    /\ now <= pre.roundDeadline
    /\ last.err = AlreadyContributed
    /\ Len(paidMembers) = 1
    /\ Len(members) > 1

\* C8: once the Scheme record exists every init fails with
\* AlreadyInitialized and leaves every field of the record as it was.
C8_SecondInitRejected ==
    (last.op = "init" /\ pre.initialized) =>
        /\ last.err = AlreadyInitialized
        /\ Unchanged

C8_Witness ==
    /\ last.op = "init"
    /\ pre.initialized
    /\ last.err = AlreadyInitialized
    /\ currentRound > 0
    /\ paidMembers # <<>>
    /\ defaulters # <<>>

\* C9: right after a successful init currentRound = 0, paidMembers and
\* defaulters are empty, roundDeadline = now + roundDuration and no funds
\* have moved.
C9_InitEffect ==
    (last.op = "init" /\ last.err = Ok) =>
        /\ initialized
        /\ currentRound = 0
        /\ paidMembers = <<>>
        /\ defaulters = <<>>
        /\ roundDeadline = now + roundDuration
        /\ balance = pre.balance
        /\ events = pre.events

C9_Witness ==
    /\ last.op = "init" /\ last.err = Ok
    /\ now > 0
    /\ roundDuration > 0
    /\ Len(members) > 1

\* C10: close_round changes the ledger only when called by the admin, and
\* contribute(contributor) only when called by contributor; a call by anyone
\* else fails with Unauthorized, whatever the time, the membership and the
\* payments, and leaves the record and every balance as they were.
C10_AuthorizationFirst ==
    /\ (last.op = "contribute" /\ last.caller # last.who) =>
            (last.err = Unauthorized /\ Unchanged)
    /\ (last.op = "close_round" /\ pre.initialized /\ last.caller # pre.admin) =>
            (last.err = Unauthorized /\ Unchanged)
    /\ (last.op = "contribute" /\ ~Unchanged) => last.caller = last.who
    /\ (last.op = "close_round" /\ ~Unchanged) => last.caller = pre.admin

C10_Witness ==
    /\ last.op = "close_round"
    /\ pre.initialized
    /\ last.caller # pre.admin
    /\ last.caller \in Range(members)
    /\ now > pre.roundDeadline
    /\ last.err = Unauthorized

C10_WitnessContribute ==
    /\ last.op = "contribute"
    /\ last.caller # last.who
    /\ last.who \in Range(members)
    /\ last.who \notin Range(paidMembers)
    /\ now <= roundDeadline
    /\ initialized
    /\ last.err = Unauthorized

\* the token transfer errors
TransferErrors == {NegativeAmount, InsufficientFunds}

\* contribute(who) by who, a member not yet paid, before the deadline has passed
TimelyUnpaidMemberContributes ==
    /\ AuthorizedContribute
    /\ now <= pre.roundDeadline
    /\ last.who \in Range(members)
    /\ last.who \notin Range(pre.paidMembers)

\* the token accepts a transfer of contributionAmount from the contributor:
\* the amount is not negative and the contributor holds it
ContributorCanPay ==
    /\ contributionAmt >= 0
    /\ pre.balance[last.who] >= contributionAmt

\* the contribute just made paid the round out
CompletingContribute ==
    /\ last.op = "contribute"
    /\ last.err = Ok
    /\ Len(pre.paidMembers) + 1 = Len(members)

\* C11: if the transfer from the contributor fails, or any later step of
\* contribute does, the whole operation aborts: the contributor is not added
\* to paidMembers, currentRound and roundDeadline are unchanged and no balance
\* has changed; a contributor enters paidMembers only with a transfer of
\* contributionAmount from them to custody.
C11_FailedContributeAborts ==
    /\ (last.op = "contribute" /\ last.err # Ok) => Unchanged
    /\ (/\ TimelyUnpaidMemberContributes
        /\ ~ContributorCanPay) =>
            /\ last.err \in TransferErrors
            /\ Unchanged
    /\ Range(paidMembers) \ Range(pre.paidMembers) # {} =>
            /\ last.op = "contribute" /\ last.err = Ok
            /\ Range(paidMembers) \ Range(pre.paidMembers) = {last.who}
            /\ balance = AfterContribution(pre.balance, last.who, contributionAmt)

C11_Witness ==
    /\ TimelyUnpaidMemberContributes
    /\ last.err = InsufficientFunds
    /\ contributionAmt > 0
    /\ pre.paidMembers # <<>>
    /\ balance[Contract] > 0

\* C13: in every state of an initialized scheme members is non-empty and has
\* no duplicate, contributionAmount > 0 and roundDuration > 0, whatever the
\* arguments of init.
C13_SchemeAlwaysValid ==
    initialized => ValidScheme

\* C14: currentRound starts at 0 and never decreases; it changes only by +1,
\* and only in a contribute that completes the round or in a successful
\* close_round; failed calls, other contributes, get_state and the passing of
\* time leave it as it was.
C14_RoundCounterMonotone ==
    /\ ~initialized => currentRound = 0
    /\ (last.op = "init" /\ last.err = Ok) => currentRound = 0
    /\ currentRound >= pre.currentRound
    /\ currentRound # pre.currentRound =>
            /\ currentRound = pre.currentRound + 1
            /\ last.err = Ok
            /\ (last.op = "close_round" \/ CompletingContribute)
    /\ (last.err # Ok \/ last.op \in {"get_state", "tick"}) =>
            currentRound = pre.currentRound
    /\ (last.op = "contribute" /\ ~CompletingContribute) =>
            currentRound = pre.currentRound

C14_Witness ==
    /\ CompletingContribute
    /\ pre.currentRound = 1
    /\ currentRound = 2
    /\ Len(members) > 1
    /\ events # <<>>

\* C15: paidMembers is a subset of members in every state, and it is empty
\* at the start of every round (after init, after a contribute that completes
\* the round, after a successful close_round); so in the new round every
\* member, one who paid in the round before included, is accepted again while
\* now <= roundDeadline, provided the token transfer succeeds.
C15_PaidMembersClearedEachRound ==
    /\ Range(paidMembers) \subseteq Range(members)
    /\ (last.op = "init" /\ last.err = Ok) => paidMembers = <<>>
    /\ currentRound # pre.currentRound => paidMembers = <<>>
    /\ (/\ AuthorizedContribute
        /\ pre.paidMembers = <<>>
        /\ last.who \in Range(members)
        /\ now <= pre.roundDeadline
        /\ ContributorCanPay) =>
            last.err = Ok

\* a member who paid in round 0, which was then force-closed, pays again in
\* round 1
C15_Witness ==
    /\ AuthorizedContribute /\ last.err = Ok
    /\ pre.paidMembers = <<>>
    /\ pre.currentRound = 1
    /\ Len(events) = 1
    /\ last.who \notin Range(events[1].data)
    /\ contributionAmt > 0
    /\ Len(members) > 1

\* the contributions made in the rounds that were force-closed: every closed
\* event carries the defaulters of its round, and the members who are not
\* among them had paid
RECURSIVE PaidInClosedRounds(_)
PaidInClosedRounds(evts) ==
    IF evts = <<>> THEN 0
    ELSE PaidInClosedRounds(SubSeq(evts, 1, Len(evts) - 1))
         + Cardinality(Range(members))
         - Cardinality(Range(evts[Len(evts)].data))

\* what custody paid out in the contribute just made
PotPaid == pre.balance[Contract] + contributionAmt - balance[Contract]

\* what custody held before the step beyond the contributions of the open round
Carried == pre.balance[Contract] - contributionAmt * Len(pre.paidMembers)

ClosedByAdmin == AdminCloseRound /\ last.err = Ok

\* C12 as stated: the funds contributed in a round that is then force-closed
\* stay in custody after close_round and are part of the pot the next
\* completed round pays out (here already for the schemes created with valid
\* arguments).
C12_ClosedRoundFundsEnterNextPot ==
    /\ ClosedByAdmin => balance = pre.balance
    /\ (CompletingContribute /\ ValidScheme) =>
            PotPaid = contributionAmt * Len(members) + Carried

\* C12 amended: the funds contributed in a round that is then force-closed
\* stay in custody after close_round, and no later pot includes them: a round
\* that completes pays out contributionAmount x |members| and leaves them in
\* custody.
C12_ClosedRoundFundsStayInCustody ==
    /\ ClosedByAdmin => balance = pre.balance
    /\ CompletingContribute =>
            /\ PotPaid = contributionAmt * Len(members)
            /\ balance[Contract] = Carried
            /\ Carried = contributionAmt * PaidInClosedRounds(events)

C12_Witness ==
    /\ CompletingContribute
    /\ ValidScheme
    /\ Len(members) > 1
    /\ PaidInClosedRounds(events) > 0
    /\ balance[Contract] > 0

\* C17: a round never closes by itself: once now > roundDeadline every
\* contribute fails and currentRound, paidMembers, roundDeadline and
\* defaulters stay as they are, however far the clock advances; only a
\* successful close_round by the admin changes the record then.
C17_NoAutomaticClose ==
    /\ last.op = "tick" => RecordUnchanged
    /\ (pre.initialized /\ now > pre.roundDeadline /\ last.op = "contribute") =>
            (last.err # Ok /\ RecordUnchanged)
    /\ (pre.initialized /\ now > pre.roundDeadline /\ ~RecordUnchanged) =>
            ClosedByAdmin

C17_Witness ==
    /\ AuthorizedContribute
    /\ now > pre.roundDeadline + 1
    /\ last.who \in Range(members)
    /\ last.who \notin Range(paidMembers)
    /\ paidMembers # <<>>
    /\ last.err = DeadlinePassed
    /\ Unchanged

\* C18: the payee of a completed round is members[currentRound mod |members|],
\* where currentRound has counted every round ended so far, the force-closed
\* ones included; neither the order of the payments nor who paid or defaulted
\* before changes it, and members is never changed after init.
C18_PayeeByRoundIndex ==
    /\ CompletingContribute =>
            balance = AfterPayout(
                        AfterContribution(pre.balance, last.who, contributionAmt),
                        members[(pre.currentRound % Len(members)) + 1],
                        contributionAmt * Len(members))
    /\ ClosedByAdmin => currentRound = pre.currentRound + 1
    /\ Len(events) <= currentRound
    /\ pre.initialized => members = pre.members

\* round 0 was force-closed with members[2] in default; in round 1 members[2]
\* paid first, members[1] last, and members[2] is paid the pot
C18_Witness ==
    /\ CompletingContribute
    /\ ValidScheme
    /\ Len(members) = 2
    /\ pre.currentRound = 1
    /\ Len(events) = 1
    /\ members[2] \in Range(defaulters)
    /\ last.who = members[1]
    /\ balance[members[2]] = pre.balance[members[2]] + 2 * contributionAmt

RECURSIVE SumOver(_, _)
SumOver(bal, S) ==
    IF S = {} THEN 0
    ELSE LET p == CHOOSE q \in S : TRUE IN bal[p] + SumOver(bal, S \ {p})

\* C19: custody holds contributionAmount x (|paidMembers| + the contributions
\* made in rounds later force-closed); so close_round changes no balance,
\* custody covers contributionAmount x |paidMembers| and a payout never fails
\* for lack of funds, and the balances of the members and of custody add up to
\* a constant.
C19_CustodyAccounting ==
    /\ balance[Contract] =
            contributionAmt * (Len(paidMembers) + PaidInClosedRounds(events))
    /\ ClosedByAdmin => balance = pre.balance
    /\ balance[Contract] >= contributionAmt * Len(paidMembers)
    /\ (last.op = "contribute" /\ last.err = InsufficientFunds) =>
            pre.balance[last.who] < contributionAmt
    /\ SumOver(balance, DOMAIN balance) = InitBalance * Cardinality(Principal)

C19_Witness ==
    /\ ValidScheme
    /\ PaidInClosedRounds(events) > 0
    /\ paidMembers # <<>>
    /\ currentRound = 2
    /\ Len(events) = 1

\* C20: defaulters is written only by init (empty) and by a successful
\* close_round: no contribute changes it, not even one that pays a round out,
\* so after a fully paid round it still holds what the most recent
\* force-close recorded.
C20_DefaultersWrittenOnlyByClose ==
    /\ last.op = "contribute" => defaulters = pre.defaulters
    /\ defaulters # pre.defaulters => ClosedByAdmin
    /\ (last.op = "init" /\ last.err = Ok) => defaulters = <<>>
    /\ defaulters = IF events = <<>> THEN <<>> ELSE events[Len(events)].data

C20_Witness ==
    /\ CompletingContribute
    /\ contributionAmt > 0
    /\ defaulters # <<>>
    /\ defaulters = pre.defaulters

\* C16: there is no terminal state: whenever the clock is past roundDeadline
\* a close_round by the admin succeeds, and with a running clock and an admin
\* who closes expired rounds currentRound increases again and again: a step
\* that ends a round keeps coming (in the model: until the round counter is at
\* MaxRound or the deadline is one the bounded clock cannot pass).
C16_RoundsKeepEnding ==
    /\ [](initialized /\ now > roundDeadline /\ currentRound < MaxRound
            => ENABLED AdminCloses)
    /\ [](AdminCloseRound /\ now > pre.roundDeadline => ClosedByAdmin)
    /\ []<>(\/ currentRound > pre.currentRound
            \/ ~initialized
            \/ currentRound >= MaxRound
            \/ roundDeadline >= MaxTime)

C16_Witness ==
    /\ ClosedByAdmin
    /\ currentRound = MaxRound
    /\ Len(events) = MaxRound
    /\ members # <<>>
====
